---- MODULE Spec2Model ----
(***************************************************************************)
(* Model of src/main.py: a Streamlit script that sends a code snippet to   *)
(* the Piston execution API and renders the compile/run output.            *)
(*                                                                         *)
(* One script run (a Streamlit rerun) is one action: it reads the widgets, *)
(* mirrors them into st.session_state, runs the logic of the pressed       *)
(* button and renders the output column.  The only suspension point is the *)
(* blocking requests.post inside debug_code: a submit is therefore split   *)
(* in two steps, Submit (up to the call) and Resolve (from the call's      *)
(* return to the end of the run).                                          *)
(*                                                                         *)
(* Encoding of Python values:                                              *)
(*   - an optional value / optional dict key is a sequence of length 0     *)
(*     (None, key absent) or 1 (the value);                                *)
(*   - a source text is a sequence of characters;                          *)
(*   - a stage dict is a record of its three optional keys.                *)
(***************************************************************************)
EXTENDS Integers, Sequences, FiniteSets, TLC

VARIABLES
    code_input,         \* st.session_state.code_input
    last_debug_result,  \* st.session_state.last_debug_result (None or the JSON dict)
    last_language,      \* st.session_state.last_language
    last_language_run,  \* st.session_state.last_language_run (key may be absent)
    selectbox,          \* widget state of 'selected_language_key' in the browser
    selected_language,  \* script local of the current run
    code_to_run,        \* script local of the current run (None outside a submit)
    payload,            \* the requests in flight, oldest first (None when no call is outstanding)
    queued,             \* the button of the run queued behind the running one ("none", "debug")
    exc,                \* what the try block of debug_code raised in this run (None if nothing)
    pc,                 \* "idle": no run in progress; "calling": inside requests.post;
                        \* "rerun": a widget change arrived during the run, a rerun is queued
    rendered            \* what the last script run put on the page

vars == <<code_input, last_debug_result, last_language, last_language_run,
          selectbox, selected_language, code_to_run, payload, queued, exc, pc, rendered>>

----------------------------------------------------------------------------
(* Bounds *)

\* longest text the user types into the text area
MaxLen == 2

----------------------------------------------------------------------------
(* Python values *)

None == <<>>
Absent == <<>>
Some(x) == <<x>>

\* d.get(key, default) on an optional key
Get(opt, default) == IF Len(opt) = 0 THEN default ELSE opt[1]

\* truthiness of d.get(key) for a string-valued key: present and non-empty
TruthyStr(opt) == Len(opt) = 1 /\ opt[1] # ""

\* characters str.strip() removes
Whitespace == {" ", "\n", "\t"}

RECURSIVE lstrip(_)
lstrip(s) == IF Len(s) > 0 /\ Head(s) \in Whitespace THEN lstrip(Tail(s)) ELSE s

RECURSIVE rstrip(_)
rstrip(s) ==
    IF Len(s) > 0 /\ s[Len(s)] \in Whitespace THEN rstrip(SubSeq(s, 1, Len(s) - 1)) ELSE s

strip(s) == rstrip(lstrip(s))

\* characters the user types: one whitespace, one non-whitespace
Chars == {" ", "a"}

\* texts the user can put into the text area
Texts == UNION {[1..k -> Chars] : k \in 0..MaxLen}

----------------------------------------------------------------------------
(* Configuration tables *)

LANGUAGE_OPTIONS ==
    <<"python", "javascript", "java", "c", "cpp", "go", "rust", "bash">>

Languages == {LANGUAGE_OPTIONS[i] : i \in 1..Len(LANGUAGE_OPTIONS)}

\* a table with no entry for the last language
ExampleCodeWithoutBash ==
    [l \in Languages \ {"bash"} |->
        IF l \in {"java", "c", "cpp", "go", "rust"} THEN <<"\n", l, "\n">> ELSE <<l>>]

\* The snippets, each reduced to its leading whitespace, one token standing
\* for its body, and its trailing whitespace (the triple-quoted ones start
\* and end with a newline).
EXAMPLE_CODE ==
    [l \in Languages |->
        IF l \in {"java", "c", "cpp", "go", "rust"} THEN <<"\n", l, "\n">> ELSE <<l>>]

NoExample == <<"# No example available for this language.">>

\* a lookup that ignores the selected language
ExampleForFirst(l) == EXAMPLE_CODE[LANGUAGE_OPTIONS[1]]

\* EXAMPLE_CODE.get(selected_language, "# No example ...")
ExampleFor(l) == IF l \in DOMAIN EXAMPLE_CODE THEN EXAMPLE_CODE[l] ELSE NoExample

----------------------------------------------------------------------------
(* The response of the execution service *)

StdoutValues == {"", "out"}
StderrValues == {"", "err"}
ExitCodes == {0, 1}

Optional(S) == {Absent} \cup {Some(x) : x \in S}

\* a stage dict: each of 'stdout', 'stderr', 'code' present or not
StageDicts ==
    [stdout : Optional(StdoutValues), stderr : Optional(StderrValues), code : Optional(ExitCodes)]

\* the {} that result.get('compile', {}) falls back to
EmptyDict == [stdout |-> Absent, stderr |-> Absent, code |-> Absent]

\* every JSON body of the documented shape: 'compile' and 'run' present or not
AllResults == [compile : Optional(StageDicts), run : Optional(StageDicts)]

Stage(out, err, code) == Some([stdout |-> out, stderr |-> err, code |-> code])

\* the bodies the session model draws from
SampleResults ==
    { [compile |-> Stage(Absent, Absent, Some(0)), run |-> Stage(Some("out"), Absent, Some(0))],
      [compile |-> Absent, run |-> Stage(Absent, Some("err"), Some(1))],
      [compile |-> Stage(Some(""), Some("err"), Some(1)), run |-> Absent],
      [compile |-> Absent, run |-> Stage(Some("out"), Some(""), Absent)],
      [compile |-> Absent, run |-> Absent] }

----------------------------------------------------------------------------
(* Execution client: debug_code *)

\* the classes the try block can raise, with their base classes
Bases ==
    [c \in {"ConnectTimeout", "ReadTimeout", "Timeout", "ConnectionError", "HTTPError",
            "requests.JSONDecodeError", "InvalidJSONError", "RequestException",
            "json.JSONDecodeError", "ValueError", "OSError", "Exception"} |->
        CASE c = "ConnectTimeout" -> {"ConnectionError", "Timeout"}
          [] c = "ReadTimeout" -> {"Timeout"}
          [] c = "Timeout" -> {"RequestException"}
          [] c = "ConnectionError" -> {"RequestException"}
          [] c = "HTTPError" -> {"RequestException"}
          [] c = "requests.JSONDecodeError" -> {"InvalidJSONError", "json.JSONDecodeError"}
          [] c = "InvalidJSONError" -> {"RequestException"}
          [] c = "RequestException" -> {"OSError"}
          [] c = "json.JSONDecodeError" -> {"ValueError"}
          [] c = "ValueError" -> {"Exception"}
          [] c = "OSError" -> {"Exception"}
          [] OTHER -> {}]

RECURSIVE Ancestors(_)
Ancestors(c) == {c} \cup UNION {Ancestors(b) : b \in Bases[c]}

IsInstance(e, class) == class \in Ancestors(e.class)

\* What lines 77-79 can do.  cause: what happened on the wire; class: the
\* exception raised for it; api: the 'message' of e.response.json(), when
\* the exception carries a response whose body is a JSON object with one.
\* response.json() on a body that is not JSON raises json.JSONDecodeError
\* (a ValueError) before requests 2.27 and requests.JSONDecodeError (also a
\* RequestException) from 2.27 on; the source pins no version.
Raised ==
    { [cause |-> "timeout", class |-> "ConnectTimeout", api |-> Absent],
      [cause |-> "timeout", class |-> "ReadTimeout", api |-> Absent],
      [cause |-> "connection", class |-> "ConnectionError", api |-> Absent],
      [cause |-> "status", class |-> "HTTPError", api |-> Absent],
      [cause |-> "status", class |-> "HTTPError", api |-> Some("runtime is unknown")],
      [cause |-> "malformed", class |-> "json.JSONDecodeError", api |-> Absent],
      [cause |-> "malformed", class |-> "requests.JSONDecodeError", api |-> Absent] }

Returned(body) == [cause |-> "ok", body |-> body]

IsRaise(outcome) == outcome.cause # "ok"

\* a payload that sends the stripped text
PayloadStripped(language, version, code) ==
    [language |-> language, version |-> version, files |-> <<[content |-> strip(code)]>>]

\* the request payload of line 73
Payload(language, version, code) ==
    [language |-> language, version |-> version, files |-> <<[content |-> code]>>]

\* the st.error texts of lines 81, 84-89 and 92
TimedOut == [text |-> "The request to the Piston API timed out.", api |-> Absent]
Communicating(e) == [text |-> "Error communicating with the Piston API", api |-> e.api]
Unexpected == [text |-> "An unexpected error occurred", api |-> Absent]

\* the clauses with the general transport clause first
ExceptClausesGeneralFirst == <<"RequestException", "Timeout", "Exception">>

\* the except clauses of lines 80, 83 and 91, in source order
ExceptClauses == <<"Timeout", "RequestException", "Exception">>

\* the first clause that matches e (0 if none)
Clause(e) ==
    LET hits == {i \in 1..Len(ExceptClauses) : IsInstance(e, ExceptClauses[i])}
    IN IF hits = {} THEN 0 ELSE CHOOSE i \in hits : \A j \in hits : i <= j

\* what the matching handler passes to st.error
ErrorOf(e) ==
    CASE ExceptClauses[Clause(e)] = "Timeout" -> TimedOut
      [] ExceptClauses[Clause(e)] = "RequestException" -> Communicating(e)
      [] OTHER -> Unexpected

\* debug_code, given what the call does: the value returned and the
\* st.error banners written on the way
debug_code(outcome) ==
    IF IsRaise(outcome)
    THEN [ret |-> None, errors |-> <<ErrorOf(outcome)>>]
    ELSE [ret |-> Some(outcome.body), errors |-> <<>>]

----------------------------------------------------------------------------
(* Output display (lines 182-238) *)

\* result.get(stage, {}).get('code', 0) == 0
StageOk(stage) == Get(Get(stage, EmptyDict).code, 0) = 0

compile_ok(result) == StageOk(result.compile)
run_ok(result) == StageOk(result.run)
overall_success(result) == compile_ok(result) /\ run_ok(result)

\* an indicator that flags nothing
ExitIndicatorNeverFlags(code, flagged) == "caption"

\* the indicator an exit code is written with: st.caption if it equals 0,
\* else the flagged one of the stage (st.warning for compile, st.error for run)
ExitIndicator(code, flagged) == IF code = Some(0) THEN "caption" ELSE flagged

\* a test that looks at stdout only
HasOutputStdoutOnly(stage) == TruthyStr(Get(stage, EmptyDict).stdout)

\* has_compile_output / has_run_output: the stage dict is non-empty and has a
\* non-empty stdout or a non-empty stderr
HasOutput(stage) ==
    LET d == Get(stage, EmptyDict)
    IN d # EmptyDict /\ (TruthyStr(d.stdout) \/ TruthyStr(d.stderr))

\* one expander: the code blocks written (None when skipped), the exit-code
\* line, whether it opens expanded, and the language the code blocks use
Section(stage, ok, flagged, lang_run) ==
    LET d == Get(stage, EmptyDict)
    IN [expanded |-> ~ok \/ TruthyStr(d.stdout),
        stdout |-> IF TruthyStr(d.stdout) THEN d.stdout ELSE None,
        stderr |-> IF TruthyStr(d.stderr) THEN d.stderr ELSE None,
        exit_code |-> d.code,
        indicator |-> ExitIndicator(d.code, flagged),
        language |-> lang_run]

\* the output column for a result that is not None
ResultView(result, lang_run) ==
    [prompt |-> FALSE,
     banner |-> IF overall_success(result) THEN "success" ELSE "error",
     compile |-> IF HasOutput(result.compile)
                 THEN Some(Section(result.compile, compile_ok(result), "warning", lang_run))
                 ELSE None,
     run |-> IF HasOutput(result.run)
             THEN Some(Section(result.run, run_ok(result), "error", lang_run))
             ELSE None,
     no_output |-> ~HasOutput(result.run) /\ ~HasOutput(result.compile)]

\* the st.info of line 186
Prompt == [prompt |-> TRUE, banner |-> "none", compile |-> None, run |-> None, no_output |-> FALSE]

\* the output column, from the two session-state keys it reads
OutputDisplay(result, lang_run) ==
    IF result = None THEN Prompt ELSE ResultView(result[1], lang_run)

\* a page: the toast and the st.error banners of the input column of this
\* run, and the output column
Page(toast, errors, output) == [toast |-> toast, errors |-> errors, output |-> output]

\* a session that starts on the second entry of the list
InitSecondLanguage ==
    /\ code_input = <<>>
    /\ last_debug_result = None
    /\ last_language = LANGUAGE_OPTIONS[2]
    /\ last_language_run = Absent
    /\ selectbox = LANGUAGE_OPTIONS[2]
    /\ selected_language = LANGUAGE_OPTIONS[2]
    /\ code_to_run = None
    /\ payload = None
    /\ queued = "none"
    /\ exc = None
    /\ pc = "idle"
    /\ rendered = [toast |-> FALSE, errors |-> <<>>,
                   output |-> [prompt |-> TRUE, banner |-> "none", compile |-> None,
                               run |-> None, no_output |-> FALSE]]

----------------------------------------------------------------------------
(* Session initialisation (lines 96-101) and the first run of the script *)

Init ==
    /\ code_input = <<>>
    /\ last_debug_result = None
    /\ last_language = LANGUAGE_OPTIONS[1]
    /\ last_language_run = Absent
    /\ selectbox = LANGUAGE_OPTIONS[1]
    /\ selected_language = LANGUAGE_OPTIONS[1]
    /\ code_to_run = None
    /\ payload = None
    /\ queued = "none"
    /\ exc = None
    /\ pc = "idle"
    /\ rendered = Page(FALSE, <<>>, OutputDisplay(None, Absent))

----------------------------------------------------------------------------
(* Script runs *)

\* lines 116-124: the run reads the selectbox and mirrors it
ReadLanguage(lang) ==
    /\ selectbox' = lang
    /\ selected_language' = lang
    /\ last_language' = lang

\* a run that makes no call: no locals of a submit survive it, and the run
\* consumes what was queued
NoCall ==
    /\ UNCHANGED payload
    /\ queued' = "none"
    /\ exc' = None
    /\ pc' = "idle"

\* lines 178-238, at the end of a run that wrote `toast` and `errors`
Render(toast, errors) ==
    rendered' = Page(toast, errors, OutputDisplay(last_debug_result', last_language_run'))

\* a language change that drops the result of the previous language
SelectLanguageDropsResult(newLang) ==
    /\ pc = "idle"
    /\ ReadLanguage(newLang)
    /\ code_to_run' = None
    /\ last_debug_result' = IF newLang = selectbox THEN last_debug_result ELSE None
    /\ UNCHANGED <<code_input, last_language_run>>
    /\ NoCall
    /\ Render(FALSE, <<>>)

\* the user picks newLang in the selectbox: a run with no button pressed
SelectLanguage(newLang) ==
    /\ pc = "idle"
    /\ ReadLanguage(newLang)
    /\ code_to_run' = None
    /\ UNCHANGED <<code_input, last_debug_result, last_language_run>>
    /\ NoCall
    /\ Render(FALSE, <<>>)

\* the user replaces the text of the text area (lines 128-135)
EditCode(newText) ==
    /\ pc = "idle"
    /\ ReadLanguage(selectbox)
    /\ code_input' = newText
    /\ code_to_run' = None
    /\ UNCHANGED <<last_debug_result, last_language_run>>
    /\ NoCall
    /\ Render(FALSE, <<>>)

\* a clear that forgets the result
ClearKeepsResult ==
    /\ pc = "idle"
    /\ ReadLanguage(selectbox)
    /\ code_input' = <<>>
    /\ code_to_run' = None
    /\ UNCHANGED <<last_debug_result, last_language_run>>
    /\ NoCall
    /\ Render(FALSE, <<>>)

\* lines 151-153
Clear ==
    /\ pc = "idle"
    /\ ReadLanguage(selectbox)
    /\ code_input' = <<>>
    /\ last_debug_result' = None
    /\ code_to_run' = None
    /\ UNCHANGED last_language_run
    /\ NoCall
    /\ Render(FALSE, <<>>)

\* lines 157-159
LoadExample ==
    /\ pc = "idle"
    /\ ReadLanguage(selectbox)
    /\ code_input' = ExampleFor(selected_language')
    /\ last_debug_result' = None
    /\ code_to_run' = None
    /\ UNCHANGED last_language_run
    /\ NoCall
    /\ Render(FALSE, <<>>)

\* a blank test that forgets strip()
IsBlankNoStrip(code) == code = <<>>

\* line 164: not code_to_run.strip()
IsBlank(code) == strip(code) = <<>>

\* lines 162-170: the toast, or the run up to requests.post (the page keeps
\* the previous output column while the spinner shows)
DebugButton ==
    /\ code_to_run' = Some(code_input)
    /\ UNCHANGED <<code_input, last_debug_result, last_language_run>>
    /\ IF IsBlank(code_input)
       THEN /\ NoCall
            /\ Render(TRUE, <<>>)
       ELSE /\ payload' = Append(payload, Payload(selected_language', "*", code_input))
            /\ queued' = "none"
            /\ exc' = None
            /\ pc' = "calling"
            /\ rendered' = Page(FALSE, <<>>, rendered.output)

\* a debug button that stays dead after a failed call
SubmitLockedAfterFailure ==
    /\ pc = "idle"
    /\ exc = None
    /\ ReadLanguage(selectbox)
    /\ DebugButton

\* the user presses "Debug Code" while no run is in progress
Submit ==
    /\ pc = "idle"
    /\ ReadLanguage(selectbox)
    /\ DebugButton

\* the user changes the selectbox while the run is blocked in the call: the
\* running script keeps its local, the change waits for the next run
SelectWhileRunning(newLang) ==
    /\ pc = "calling"
    /\ selectbox' = newLang
    /\ UNCHANGED <<code_input, last_debug_result, last_language, last_language_run,
                   selected_language, code_to_run, payload, queued, exc, pc, rendered>>

\* a press during the call that starts a second run beside the blocked one
SubmitWhileRunningConcurrent ==
    /\ pc = "calling"
    /\ ~IsBlank(code_input)
    /\ payload' = Append(payload, Payload(selectbox, "*", code_input))
    /\ UNCHANGED <<code_input, last_debug_result, last_language, last_language_run,
                   selectbox, selected_language, code_to_run, queued, exc, pc, rendered>>

\* the user presses "Debug Code" while the run is blocked in the call: the
\* session's single script thread is busy, the press is queued as the next run
SubmitWhileRunning ==
    /\ pc = "calling"
    /\ queued' = "debug"
    /\ UNCHANGED <<code_input, last_debug_result, last_language, last_language_run,
                   selectbox, selected_language, code_to_run, payload, exc, pc, rendered>>

\* the language re-read from the widget when the call returns
LanguageRunReread == selectbox

\* line 173: the language stored with the result
LanguageRun == selected_language

\* a return that stores the result without its language
ResolveForgetsLanguage(outcome) ==
    /\ pc = "calling"
    /\ LET r == debug_code(outcome)
       IN /\ last_debug_result' = r.ret
          /\ UNCHANGED last_language_run
          /\ exc' = IF IsRaise(outcome) THEN Some(outcome) ELSE None
          /\ Render(FALSE, r.errors)
    /\ payload' = Tail(payload)
    /\ pc' = IF selectbox # selected_language \/ queued # "none" THEN "rerun" ELSE "idle"
    /\ UNCHANGED <<code_input, last_language, selectbox, selected_language, code_to_run, queued>>

\* a call that is sent again when it fails
ResolveRetries(outcome) ==
    /\ pc = "calling"
    /\ exc' = IF IsRaise(outcome) THEN Some(outcome) ELSE None
    /\ IF IsRaise(outcome)
       THEN /\ payload' = Append(Tail(payload), Head(payload))
            /\ pc' = "calling"
            /\ UNCHANGED <<last_debug_result, last_language_run, rendered>>
       ELSE /\ last_debug_result' = Some(outcome.body)
            /\ last_language_run' = Some(selected_language)
            /\ Render(FALSE, <<>>)
            /\ payload' = Tail(payload)
            /\ pc' = IF selectbox # selected_language \/ queued # "none" THEN "rerun" ELSE "idle"
    /\ UNCHANGED <<code_input, last_language, selectbox, selected_language, code_to_run, queued>>

\* lines 77-93 and 170-173, then the output column: the call ends as
\* `outcome` and the run completes
Resolve(outcome) ==
    /\ pc = "calling"
    /\ LET r == debug_code(outcome)
       IN /\ last_debug_result' = r.ret
          /\ last_language_run' = Some(LanguageRun)
          /\ exc' = IF IsRaise(outcome) THEN Some(outcome) ELSE None
          /\ Render(FALSE, r.errors)
    /\ payload' = Tail(payload)
    /\ pc' = IF selectbox # selected_language \/ queued # "none" THEN "rerun" ELSE "idle"
    /\ UNCHANGED <<code_input, last_language, selectbox, selected_language, code_to_run, queued>>

\* the run queued by a selectbox change or a button press made during the call
Rerun ==
    /\ pc = "rerun"
    /\ ReadLanguage(selectbox)
    /\ IF queued = "debug"
       THEN DebugButton
       ELSE /\ code_to_run' = None
            /\ UNCHANGED <<code_input, last_debug_result, last_language_run>>
            /\ NoCall
            /\ Render(FALSE, <<>>)

----------------------------------------------------------------------------
(* Specifications *)

\* what the call can do in the session model
Outcomes == Raised \cup {Returned(body) : body \in SampleResults}

Next ==
    \/ \E newLang \in Languages : SelectLanguage(newLang)
    \/ \E newText \in Texts : EditCode(newText)
    \/ Clear
    \/ LoadExample
    \/ Submit
    \/ \E newLang \in Languages : SelectWhileRunning(newLang)
    \/ SubmitWhileRunning
    \/ \E outcome \in Outcomes : Resolve(outcome)
    \/ Rerun

Spec == Init /\ [][Next]_vars

\* The output column over every response body: one session in which the
\* example is loaded and submitted, the call returning any body.
AllOutcomes == Raised \cup {Returned(body) : body \in AllResults}

NextView ==
    \/ LoadExample
    \/ Clear
    \/ Submit
    \/ SubmitWhileRunning
    \/ Rerun
    \/ \E outcome \in AllOutcomes : Resolve(outcome)

SpecView == Init /\ [][NextView]_vars

\* The session with one language, under the scheduling the code has: the
\* timeout=15 of line 77 bounds the wait, so a run blocked in requests.post
\* is eventually resumed, and a queued run is eventually started.
NextLive ==
    \/ \E newText \in Texts : EditCode(newText)
    \/ Clear
    \/ LoadExample
    \/ Submit
    \/ SubmitWhileRunning
    \/ \E outcome \in Outcomes : Resolve(outcome)
    \/ Rerun

FairSpec ==
    /\ Init
    /\ [][NextLive]_vars
    /\ WF_vars(\E outcome \in Outcomes : Resolve(outcome))
    /\ WF_vars(Rerun)

----------------------------------------------------------------------------
(* Claims *)

\* empty or whitespace only, stated on the characters
OnlyWhitespace(code) == \A i \in 1..Len(code) : code[i] \in Whitespace

\* C1: a Submit on an empty or whitespace-only buffer makes no call to the
\* execution client and leaves last_debug_result and last_language_run as
\* they were, whatever the session is displaying.
C1_BlankSubmitIsInert ==
    [][(Submit /\ OnlyWhitespace(code_input)) =>
          /\ pc' = "idle"
          /\ payload' = None
          /\ UNCHANGED <<last_debug_result, last_language_run, code_input>>]_vars

\* a blank submit was answered with the toast while a result is displayed
C1_Witness ==
    /\ rendered.toast
    /\ code_input # <<>>
    /\ OnlyWhitespace(code_input)
    /\ last_debug_result # None

\* C2 (as claimed): after a submit whose call failed, the last outcome holds
\* the failure and the output column shows it, not the neutral prompt.
C2_FailureIsKept ==
    exc # None => (last_debug_result # None /\ ~rendered.output.prompt)

\* the language label of every section the output column shows
SectionLanguages(output) ==
    {output.compile[i].language : i \in 1..Len(output.compile)}
        \cup {output.run[i].language : i \in 1..Len(output.run)}

\* C3: the language stored with an outcome is the one selected when its
\* submit was dispatched (the language of the request); no later selection
\* changes it, and it labels the rendered output.
C3_LanguageCapturedAtSubmit ==
    [][/\ (pc = "idle" /\ pc' = "calling") => payload'[1].language = selectbox
       /\ (pc = "calling" /\ pc' # "calling") =>
              /\ last_language_run' = Some(payload[1].language)
              /\ SectionLanguages(rendered'.output) \subseteq {Some(payload[1].language)}
       /\ (pc # "calling" \/ pc' = "calling") => UNCHANGED last_language_run
       /\ pc' # "calling" => SectionLanguages(rendered'.output) \subseteq {last_language_run'}]_vars

\* a result arrived after the selectbox was changed during its call
C3_Witness ==
    /\ pc = "rerun"
    /\ last_debug_result # None
    /\ last_language_run # Some(selectbox)
    /\ SectionLanguages(rendered.output) = {last_language_run}

\* exit code of an optional stage: 0, or absent (also when the stage is)
ZeroOrAbsent(stage) ==
    \/ stage = Absent
    \/ stage[1].code = Absent
    \/ stage[1].code = Some(0)

\* exit code of an optional stage: present and 0
IsZero(stage) == stage # Absent /\ stage[1].code = Some(0)

\* C4 (as claimed): for a result, the success banner shows iff the compile
\* exit code is 0 or absent and the run exit code is 0.
C4_SuccessNeedsRunZero ==
    last_debug_result # None =>
        (rendered.output.banner = "success"
            <=> (ZeroOrAbsent(last_debug_result[1].compile) /\ IsZero(last_debug_result[1].run)))

\* C5: Clear empties the buffer and the outcome, keeps the selected
\* language, and the output column is then the neutral prompt.
C5_ClearResets ==
    [][Clear =>
          /\ code_input' = <<>>
          /\ last_debug_result' = None
          /\ selectbox' = selectbox
          /\ last_language' = last_language
          /\ rendered'.output = Prompt]_vars

\* cleared after an outcome, with a language other than the default selected
C5_Witness ==
    /\ pc = "idle"
    /\ code_input = <<>>
    /\ last_debug_result = None
    /\ rendered.output = Prompt
    /\ last_language_run # Absent
    /\ selectbox # LANGUAGE_OPTIONS[1]

\* C6: LoadExample puts the snippet of the selected language into the
\* buffer (the placeholder only if the table has none for it), empties the
\* outcome and keeps the selected language.
C6_LoadExampleLoadsSelected ==
    [][LoadExample =>
          /\ code_input' = IF selectbox \in DOMAIN EXAMPLE_CODE
                           THEN EXAMPLE_CODE[selectbox] ELSE NoExample
          /\ last_debug_result' = None
          /\ selectbox' = selectbox
          /\ last_language' = last_language]_vars

\* the rust snippet loaded over an earlier outcome
C6_Witness ==
    /\ pc = "idle"
    /\ selectbox = "rust"
    /\ code_input = EXAMPLE_CODE["rust"]
    /\ last_debug_result = None
    /\ last_language_run # Absent

\* C7: SelectLanguage changes the selected language only; selecting the
\* selected language changes nothing of the session state.
C7_SelectLanguageFrame ==
    [][\A newLang \in Languages :
          SelectLanguage(newLang) =>
              /\ selectbox' = newLang
              /\ last_language' = newLang
              /\ UNCHANGED <<code_input, last_debug_result, last_language_run>>
              /\ newLang = selectbox =>
                     UNCHANGED <<code_input, last_debug_result, last_language_run,
                                 last_language, selectbox>>]_vars

\* another language selected while a result for non-blank code is displayed
C7_Witness ==
    /\ pc = "idle"
    /\ last_debug_result # None
    /\ last_language_run # Some(selectbox)
    /\ ~OnlyWhitespace(code_input)
    /\ rendered.output = OutputDisplay(last_debug_result, last_language_run)

\* an optional stage that is present with a non-empty stdout or stderr
StageHasText(stage) ==
    /\ stage # Absent
    /\ \/ (stage[1].stdout # Absent /\ stage[1].stdout # Some(""))
       \/ (stage[1].stderr # Absent /\ stage[1].stderr # Some(""))

\* C8: for a result, each stage section shows iff the stage is present with
\* a non-empty stdout or stderr, whatever the other stage; the no-output
\* notice shows iff neither section does.
C8_SectionsFollowOutput ==
    last_debug_result # None =>
        /\ rendered.output.compile # None <=> StageHasText(last_debug_result[1].compile)
        /\ rendered.output.run # None <=> StageHasText(last_debug_result[1].run)
        /\ rendered.output.no_output
              <=> (rendered.output.compile = None /\ rendered.output.run = None)

\* compile has only stderr and is shown; run has no text and is suppressed
C8_Witness ==
    /\ last_debug_result # None
    /\ StageHasText(last_debug_result[1].compile)
    /\ last_debug_result[1].compile[1].stdout = Absent
    /\ last_debug_result[1].run # Absent
    /\ ~StageHasText(last_debug_result[1].run)
    /\ rendered.output.compile # None
    /\ rendered.output.run = None
    /\ ~rendered.output.no_output

\* C9 (as claimed): a success status whose body is not JSON is reported as
\* the unexpected error.
C9_MalformedIsUnexpected ==
    (exc # None /\ exc[1].cause = "malformed") => rendered.errors = <<Unexpected>>

\* C10: a failed call writes exactly one of the three error banners, and a
\* call that timed out writes the timeout banner, never the transport one.
C10_OneBannerTimeoutFirst ==
    exc # None =>
        /\ Len(rendered.errors) = 1
        /\ rendered.errors[1].text \in {TimedOut.text, Communicating(exc[1]).text, Unexpected.text}
        /\ exc[1].cause = "timeout" => rendered.errors = <<TimedOut>>

\* a connect timeout, which is also a ConnectionError, reported as a timeout
C10_Witness ==
    /\ exc # None
    /\ exc[1].class = "ConnectTimeout"
    /\ IsInstance(exc[1], "RequestException")
    /\ rendered.errors = <<TimedOut>>

\* C11: at most one call to the execution service is outstanding; a press
\* of the debug button during a call dispatches nothing until the call has
\* resolved.
C11_OneCallOutstanding ==
    /\ Len(payload) <= 1
    /\ pc = "calling" <=> Len(payload) = 1
    /\ queued # "none" => pc \in {"calling", "rerun"}

\* the debug button was pressed during a call and one request is in flight
C11_Witness ==
    /\ pc = "calling"
    /\ queued = "debug"
    /\ Len(payload) = 1

\* C12: a request is sent only by a run of the debug button on a non-blank
\* buffer, one per run; a call that failed is not sent again, and the other
\* transitions send nothing.
C12_OneCallPerSubmit ==
    [][/\ payload' # payload /\ Len(payload') >= Len(payload) =>
              /\ Submit \/ (Rerun /\ queued = "debug")
              /\ ~OnlyWhitespace(code_input)
              /\ payload' = Append(payload, Head(payload'))
       /\ exc' # None => payload' = <<>> /\ pc' # "calling"
       /\ (\/ \E newLang \in Languages : SelectLanguage(newLang)
           \/ \E newText \in Texts : EditCode(newText)
           \/ Clear
           \/ LoadExample) => UNCHANGED payload]_vars

\* a call failed and nothing is in flight afterwards
C12_Witness ==
    /\ exc # None
    /\ pc = "idle"
    /\ payload = <<>>
    /\ rendered.errors # <<>>

\* C13 (as claimed): the page is a function of the session state: a run that
\* leaves the session state as it was writes the page the previous run wrote
\* (the transient toast aside).
C13_PageFollowsState ==
    [][(/\ pc # "calling" /\ pc' # "calling"
        /\ UNCHANGED <<code_input, last_debug_result, last_language, last_language_run>>)
          => (rendered'.errors = rendered.errors /\ rendered'.output = rendered.output)]_vars

\* C14: every request in flight carries a supported language, the one
\* selected when it was dispatched, the version "*", and one file holding
\* the buffer of that moment, which is not blank.
C14_RequestWellFormed ==
    \A i \in 1..Len(payload) :
        /\ payload[i].language \in Languages
        /\ payload[i].language = selected_language
        /\ payload[i].language = last_language
        /\ payload[i].version = "*"
        /\ Len(payload[i].files) = 1
        /\ payload[i].files[1].content = code_input
        /\ code_to_run = Some(payload[i].files[1].content)
        /\ ~OnlyWhitespace(payload[i].files[1].content)

\* a request whose source starts with whitespace, sent as typed
C14_Witness ==
    /\ pc = "calling"
    /\ Len(payload) = 1
    /\ payload[1].files[1].content = <<" ", "a">>
    /\ payload[1].language = "go"

\* C15: no outcome ends the session: whenever no run is in progress the user
\* can edit, clear, load the example and submit, and a run blocked in the
\* call is always resumed, with a result stored or a failure reported.
C15_SessionNeverStuck ==
    /\ [](pc = "idle" =>
            /\ \A newText \in Texts : ENABLED EditCode(newText)
            /\ ENABLED Clear
            /\ ENABLED LoadExample
            /\ ENABLED Submit)
    /\ (pc = "calling") ~> (pc # "calling")
    /\ [][(pc = "calling" /\ pc' # "calling") =>
              (last_debug_result' # None \/ (exc' # None /\ rendered'.errors # <<>>))]_vars

\* idle again after a failed call, and after a body with neither stage
C15_Witness ==
    /\ pc = "idle"
    /\ \/ exc # None
       \/ last_debug_result = Some([compile |-> Absent, run |-> Absent])

\* before any run of a button
FirstRun == pc = "idle" /\ last_language_run = Absent /\ code_to_run = None /\ code_input = <<>>

\* C16: the session starts Idle: empty buffer, no outcome, the first
\* language of the list selected, and the neutral prompt in the output column.
C16_StartsIdle ==
    /\ code_input = <<>>
    /\ last_debug_result = None
    /\ selectbox = "python"
    /\ last_language = "python"
    /\ LANGUAGE_OPTIONS[1] = "python"
    /\ rendered.output = Prompt
    /\ [][TRUE]_vars

\* the session as it starts
C16_Witness ==
    /\ FirstRun
    /\ last_debug_result = None
    /\ selectbox = LANGUAGE_OPTIONS[1]
    /\ rendered.output.prompt

\* the sections the output column shows
Sections(output) ==
    {output.compile[i] : i \in 1..Len(output.compile)}
        \cup {output.run[i] : i \in 1..Len(output.run)}

Flagged == {"warning", "error"}

\* the body {"run": {"stderr": "err", "code": 1}}
RunFailedBody == [compile |-> Absent, run |-> Stage(Absent, Some("err"), Some(1))]

\* C17: a section writes an exit code of 0 with the neutral indicator and
\* any other exit code with the flagged one; for a body whose run has only
\* stderr and exit code 1 the banner is the error one, the run section shows
\* the stderr text and a flagged exit code, and there is no compile section.
C17_ExitCodeIndicator ==
    /\ \A sec \in Sections(rendered.output) :
          /\ sec.exit_code = Some(0) => sec.indicator = "caption"
          /\ (sec.exit_code # Absent /\ sec.exit_code # Some(0)) => sec.indicator \in Flagged
    /\ last_debug_result = Some(RunFailedBody) =>
          /\ rendered.output.banner = "error"
          /\ rendered.output.compile = None
          /\ rendered.output.run # None
          /\ rendered.output.run[1].stderr = Some("err")
          /\ rendered.output.run[1].stdout = None
          /\ rendered.output.run[1].exit_code = Some(1)
          /\ rendered.output.run[1].indicator \in Flagged

\* the run-failed body on the page
C17_Witness ==
    /\ pc = "idle"
    /\ last_debug_result = Some(RunFailedBody)
    /\ rendered.output.run # None
    /\ rendered.output.run[1].indicator = "error"

\* C18 (as claimed): under the success banner no section shows a flagged
\* exit-code indicator.
C18_BannerAgreesWithIndicators ==
    rendered.output.banner = "success" =>
        \A sec \in Sections(rendered.output) : sec.indicator \notin Flagged

\* C19: whenever an outcome is stored, the language it was run with is
\* stored too and is one of the supported languages, so no section is
\* labelled with an undefined language.
C19_OutcomeHasLanguage ==
    /\ last_debug_result # None =>
          /\ last_language_run # Absent
          /\ last_language_run[1] \in Languages
    /\ \A sec \in Sections(rendered.output) :
          sec.language # None /\ sec.language[1] \in Languages

\* a result displayed under the language it ran with, another one selected
C19_Witness ==
    /\ pc = "idle"
    /\ last_debug_result # None
    /\ last_language_run = Some("bash")
    /\ selectbox = "rust"
    /\ Sections(rendered.output) # {}

\* C20: every supported language has a snippet that is not blank, so
\* LoadExample never loads the placeholder or a blank text, and a Submit on
\* the loaded snippet dispatches exactly one call.
C20_ExamplesAreSubmittable ==
    [][/\ LoadExample =>
              /\ selectbox \in DOMAIN EXAMPLE_CODE
              /\ code_input' # NoExample
              /\ ~OnlyWhitespace(code_input')
       /\ (Submit /\ code_input = ExampleFor(selectbox)) =>
              /\ pc' = "calling"
              /\ ~rendered'.toast
              /\ Len(payload') = 1
              /\ payload'[1].files[1].content = code_input]_vars

\* the java snippet, which starts and ends with a newline, in flight
C20_Witness ==
    /\ pc = "calling"
    /\ Len(payload) = 1
    /\ payload[1].language = "java"
    /\ payload[1].files[1].content = EXAMPLE_CODE["java"]
    /\ Head(payload[1].files[1].content) \in Whitespace

====
